---- MODULE Spec2Model ----
(***************************************************************************)
(* Shared-memory frame channel of rgbd_recorder: one ZedPublisher process  *)
(* that owns the camera and writes eight named shared memory blocks, and   *)
(* ZedReceiver objects in other processes that open the blocks by name and *)
(* copy frames out.  Every statement that touches shared memory, the       *)
(* clock or an Event is one step; the processes interleave freely.         *)
(***************************************************************************)
EXTENDS Integers, Sequences, FiniteSets, TLC

\* ------------------------------------------------------------------ bounds
\* Loop iterations the publisher may begin.
MaxFrames == 2
\* Calls of _grab_images and _retrieve_rgb_image_as_int the receivers may
\* make, all receivers together.
MaxCalls == 2

\* ------------------------------------------------------- program constants
CameraFps == 60

\* The receiver processes, and the one that runs beside the publisher in
\* Spec.
Receivers == {"r1", "r2"}
Solo == {"r1"}

\* The eight blocks, in the order _setup creates them, ZedReceiver.__init__
\* opens them and unlink_shared_memory unlinks them.
SegOrderShapeLast ==
    << "rgb_left", "rgb_right", "timestamp", "intrinsics", "fps",
       "write_lock", "read_lock", "rgb_shape" >>

SegOrder ==
    << "rgb_left", "rgb_right", "rgb_shape", "timestamp", "intrinsics", "fps",
       "write_lock", "read_lock" >>

NSeg == Len(SegOrder)

Segs == {SegOrder[i] : i \in 1..NSeg}

\* Shape of the images the camera was configured for, and another shape.
SampleShape == << 720, 1280, 3 >>
OtherShape == << 1080, 1920, 3 >>
ZeroShape == << 0, 0, 0 >>

\* The content of a pixel buffer is <<frame number, view>>: a slice
\* assignment of a whole buffer is one step, a frame pair takes two.  Frame 0
\* is the sample image of _setup, a zero-filled block holds ZeroImage, an
\* unwritten private buffer holds GarbageImage.
Image(k, view) == << k, view >>
ZeroImage == << -1, "Z" >>
GarbageImage == << -2, "U" >>

NoImage == [id |-> -1, shape |-> ZeroShape]

\* ---------------------------------------------------------------- state
VARIABLES
    now,              \* the system clock read by time.time()
    exists,           \* names of the blocks that are currently linked
    mem,              \* contents of the eight blocks
    ppc,              \* publisher: position in run()
    pidx,             \* publisher: block being created or unlinked
    handles,          \* publisher: blocks whose self.*_shm is not None
    frame,            \* camera: number of the frame last grabbed
    image_left,       \* publisher: local image_left
    image_right,      \* publisher: local image_right
    timestamp0,       \* publisher: local timestamp of _setup
    shutdown_event,   \* multiprocessing.Event set by stop()
    running_event,    \* multiprocessing.Event start() waits on
    start_returned,   \* the caller of start() has returned from it
    error_logged,     \* logger.error of the except clause was written
    unlinks,          \* per block: number of shm.unlink() calls made
    written,          \* history: every value stored in the timestamp block
    rpc,              \* receiver: position
    ropen,            \* receiver: number of blocks opened by __init__
    attach_result,    \* receiver: outcome of the last constructor call
    rgb_shape,        \* receiver: shape read by __init__
    fps,              \* receiver: self.fps
    previous_timestamp, \* receiver: self.previous_timestamp
    buffer_left,      \* receiver: self.rgb_left_buffer_array
    buffer_right,     \* receiver: self.rgb_right_buffer_array
    rtmp,             \* receiver: value of read_lock read by += / -=
    held,             \* receiver: what the caller got from the last return
    calls,            \* number of receiver calls made so far
    read_start        \* history: timestamps written when the copy began

pvars == << ppc, pidx, handles, frame, image_left, image_right, timestamp0,
            running_event, error_logged, unlinks, written >>
rvars == << rpc, ropen, attach_result, rgb_shape, fps, previous_timestamp,
            buffer_left, buffer_right, rtmp, held, calls, read_start >>
vars == << now, exists, mem, shutdown_event, start_returned, pvars, rvars >>

ZeroMem ==
    [ rgb_left |-> ZeroImage, rgb_right |-> ZeroImage, rgb_shape |-> ZeroShape,
      timestamp |-> 0, intrinsics |-> "zero", fps |-> 0,
      write_lock |-> FALSE, read_lock |-> 0 ]

Init ==
    /\ now = 1
    /\ exists = {}
    /\ mem = ZeroMem
    /\ ppc = "init"
    /\ pidx = 0
    /\ handles = {}
    /\ frame = 0
    /\ image_left = NoImage
    /\ image_right = NoImage
    /\ timestamp0 = 0
    /\ shutdown_event = FALSE
    /\ start_returned = FALSE
    /\ running_event = FALSE
    /\ error_logged = FALSE
    /\ unlinks = [s \in Segs |-> 0]
    /\ written = << >>
    /\ rpc = [r \in Receivers |-> "none"]
    /\ ropen = [r \in Receivers |-> 0]
    /\ attach_result = [r \in Receivers |-> "none"]
    /\ rgb_shape = [r \in Receivers |-> ZeroShape]
    /\ fps = [r \in Receivers |-> 0]
    /\ previous_timestamp = [r \in Receivers |-> 0]
    /\ buffer_left = [r \in Receivers |-> GarbageImage]
    /\ buffer_right = [r \in Receivers |-> GarbageImage]
    /\ rtmp = [r \in Receivers |-> 0]
    /\ held = [r \in Receivers |-> "none"]
    /\ calls = 0
    /\ read_start = [r \in Receivers |-> 0]

\* ------------------------------------------------------------ orchestrator
\* ZedPublisher.start(), super().start(): the process is spawned and begins
\* run(); the caller goes on to wait for the running event.
Start ==
    /\ ppc = "init"
    /\ ppc' = "setup"
    /\ UNCHANGED << now, exists, mem, shutdown_event, start_returned, pidx,
                    handles, frame, image_left, image_right, timestamp0,
                    running_event, error_logged, unlinks, written, rvars >>

\* start() returns as soon as the process is spawned.
StartReturnNoWait ==
    /\ ppc # "init"
    /\ ~start_returned
    /\ start_returned' = TRUE
    /\ UNCHANGED << now, exists, mem, shutdown_event, pvars, rvars >>

\* ZedPublisher.start(), self.running_event.wait(): the event is set and
\* start() returns.
StartReturn ==
    /\ ppc # "init"
    /\ ~start_returned
    /\ running_event
    /\ start_returned' = TRUE
    /\ UNCHANGED << now, exists, mem, shutdown_event, pvars, rvars >>

\* ZedPublisher.stop(): sets the shutdown event.
Stop ==
    /\ ppc # "init"
    /\ ~shutdown_event
    /\ shutdown_event' = TRUE
    /\ UNCHANGED << now, exists, mem, start_returned, pvars, rvars >>

\* ---------------------------------------------------------------- publisher
\* What shared_memory_block_like copies into block s.
InitValue(s) ==
    CASE s = "rgb_left" -> Image(0, "L")
      [] s = "rgb_right" -> Image(0, "L")
      [] s = "rgb_shape" -> SampleShape
      [] s = "timestamp" -> timestamp0
      [] s = "intrinsics" -> "K"
      [] s = "fps" -> CameraFps
      [] s = "write_lock" -> FALSE
      [] s = "read_lock" -> 0

\* _setup up to the creation of the blocks: the camera is instantiated, the
\* sample image, the time, the intrinsics and the fps are taken.
PubSetupCamera ==
    /\ ppc = "setup"
    /\ timestamp0' = now
    /\ ppc' = "create"
    /\ pidx' = 1
    /\ UNCHANGED << now, exists, mem, shutdown_event, start_returned, handles,
                    frame, image_left, image_right, running_event,
                    error_logged, unlinks, written, rvars >>

\* _setup raises before any block exists (no camera, no image): run() is left
\* by the exception, outside its try statement.
PubSetupFail ==
    /\ ppc = "setup"
    /\ ppc' = "crashed"
    /\ UNCHANGED << now, exists, mem, shutdown_event, start_returned, pidx,
                    handles, frame, image_left, image_right, timestamp0,
                    running_event, error_logged, unlinks, written, rvars >>

\* shared_memory_block_like, first half: the block is created under its
\* name, zero-filled.
PubCreate ==
    /\ ppc = "create"
    /\ LET s == SegOrder[pidx] IN
        /\ s \notin exists
        /\ exists' = exists \cup {s}
        /\ mem' = [mem EXCEPT ![s] = ZeroMem[s]]
    /\ ppc' = "fill"
    /\ UNCHANGED << now, shutdown_event, start_returned, pidx, handles, frame,
                    image_left, image_right, timestamp0, running_event,
                    error_logged, unlinks, written, rvars >>

\* shared_memory_block_like, second half: the example array is copied into
\* the block and the handle is kept in self.
PubFill ==
    /\ ppc = "fill"
    /\ LET s == SegOrder[pidx] IN
        /\ mem' = [mem EXCEPT ![s] = InitValue(s)]
        /\ handles' = handles \cup {s}
        /\ written' = IF s = "timestamp" THEN << timestamp0 >> ELSE written
    /\ IF pidx < NSeg
         THEN ppc' = "create" /\ pidx' = pidx + 1
         ELSE ppc' = "loop" /\ pidx' = 0
    /\ UNCHANGED << now, exists, shutdown_event, start_returned, frame,
                    image_left, image_right, timestamp0, running_event,
                    error_logged, unlinks, rvars >>

\* The loop condition does not look at the shutdown event.
PubLoopEnterAlways ==
    /\ ppc = "loop"
    /\ frame < MaxFrames
    /\ ppc' = "grab"
    /\ UNCHANGED << now, exists, mem, shutdown_event, start_returned, pidx,
                    handles, frame, image_left, image_right, timestamp0,
                    running_event, error_logged, unlinks, written, rvars >>

\* while not self.shutdown_event.is_set(): the event is clear.
PubLoopEnter ==
    /\ ppc = "loop"
    /\ ~shutdown_event
    /\ frame < MaxFrames
    /\ ppc' = "grab"
    /\ UNCHANGED << now, exists, mem, shutdown_event, start_returned, pidx,
                    handles, frame, image_left, image_right, timestamp0,
                    running_event, error_logged, unlinks, written, rvars >>

\* while not self.shutdown_event.is_set(): the event is set.
PubLoopExit ==
    /\ ppc = "loop"
    /\ shutdown_event
    /\ ppc' = "finally"
    /\ pidx' = 1
    /\ UNCHANGED << now, exists, mem, shutdown_event, start_returned, handles,
                    frame, image_left, image_right, timestamp0, running_event,
                    error_logged, unlinks, written, rvars >>

\* self._camera._grab_images(): blocks until the camera delivers its next
\* frame, one camera period after the previous one.
PubGrab ==
    /\ ppc = "grab"
    /\ frame' = frame + 1
    /\ now' = now + 1
    /\ ppc' = "retrieve_left"
    /\ UNCHANGED << exists, mem, shutdown_event, start_returned, pidx,
                    handles, image_left, image_right, timestamp0,
                    running_event, error_logged, unlinks, written, rvars >>

PubRetrieveLeft ==
    /\ ppc = "retrieve_left"
    /\ \E sh \in {SampleShape, OtherShape} :
          image_left' = [id |-> frame, shape |-> sh]
    /\ ppc' = "retrieve_right"
    /\ UNCHANGED << now, exists, mem, shutdown_event, start_returned, pidx,
                    handles, frame, image_right, timestamp0, running_event,
                    error_logged, unlinks, written, rvars >>

PubRetrieveRight ==
    /\ ppc = "retrieve_right"
    /\ \E sh \in {SampleShape, OtherShape} :
          image_right' = [id |-> frame, shape |-> sh]
    /\ ppc' = "admit"
    /\ UNCHANGED << now, exists, mem, shutdown_event, start_returned, pidx,
                    handles, frame, image_left, timestamp0, running_event,
                    error_logged, unlinks, written, rvars >>

\* The camera driver raises during grab or retrieve.
PubCaptureFail ==
    /\ ppc \in {"grab", "retrieve_left", "retrieve_right"}
    /\ ppc' = "except"
    /\ UNCHANGED << now, exists, mem, shutdown_event, start_returned, pidx,
                    handles, frame, image_left, image_right, timestamp0,
                    running_event, error_logged, unlinks, written, rvars >>

\* The statements of one loop iteration that follow the admission loop, in
\* the order run() executes them.
LoopOrderTimestampFirst ==
    << "set_write", "write_ts", "copy_left", "copy_right", "clear_write",
       "set_running", "loop" >>

LoopOrder ==
    << "set_write", "copy_left", "copy_right", "write_ts", "clear_write",
       "set_running", "loop" >>

\* The statement that follows statement pc.
After(pc) ==
    LoopOrder[(CHOOSE i \in 1..(Len(LoopOrder) - 1) : LoopOrder[i] = pc) + 1]

\* The publisher waits as long as there is a reader.
MustWaitReaders == mem.read_lock > 0

\* The condition of the admission loop of run().
MustWait == mem.read_lock > 0 /\ mem.write_lock

\* while read_lock > 0 and write_lock: sleep.  The loop is left when the
\* condition is false.
PubAdmit ==
    /\ ppc = "admit"
    /\ ~MustWait
    /\ ppc' = "set_write"
    /\ UNCHANGED << now, exists, mem, shutdown_event, start_returned, pidx,
                    handles, frame, image_left, image_right, timestamp0,
                    running_event, error_logged, unlinks, written, rvars >>

\* self.write_lock_shm_array[0] = True
PubSetWrite ==
    /\ ppc = "set_write"
    /\ mem' = [mem EXCEPT !.write_lock = TRUE]
    /\ ppc' = After("set_write")
    /\ UNCHANGED << now, exists, shutdown_event, start_returned, pidx,
                    handles, frame, image_left, image_right, timestamp0,
                    running_event, error_logged, unlinks, written, rvars >>

\* self.rgb_left_shm_array[:] = image_left[:]
PubCopyLeft ==
    /\ ppc = "copy_left"
    /\ image_left.shape = SampleShape
    /\ mem' = [mem EXCEPT !.rgb_left = Image(image_left.id, "L")]
    /\ ppc' = After("copy_left")
    /\ UNCHANGED << now, exists, shutdown_event, start_returned, pidx,
                    handles, frame, image_left, image_right, timestamp0,
                    running_event, error_logged, unlinks, written, rvars >>

\* self.rgb_right_shm_array[:] = image_right[:]
PubCopyRight ==
    /\ ppc = "copy_right"
    /\ image_right.shape = SampleShape
    /\ mem' = [mem EXCEPT !.rgb_right = Image(image_right.id, "R")]
    /\ ppc' = After("copy_right")
    /\ UNCHANGED << now, exists, shutdown_event, start_returned, pidx,
                    handles, frame, image_left, image_right, timestamp0,
                    running_event, error_logged, unlinks, written, rvars >>

\* The slice assignment raises: the image does not have the shape of the
\* block's array.
PubCopyFail ==
    /\ \/ ppc = "copy_left" /\ image_left.shape # SampleShape
       \/ ppc = "copy_right" /\ image_right.shape # SampleShape
    /\ ppc' = "except"
    /\ UNCHANGED << now, exists, mem, shutdown_event, start_returned, pidx,
                    handles, frame, image_left, image_right, timestamp0,
                    running_event, error_logged, unlinks, written, rvars >>

\* The publisher writes the timestamp of the previous frame again.
PubWriteTimestampStale ==
    /\ ppc = "write_ts"
    /\ mem' = [mem EXCEPT !.timestamp = mem.timestamp]
    /\ written' = Append(written, mem.timestamp)
    /\ ppc' = After("write_ts")
    /\ UNCHANGED << now, exists, shutdown_event, start_returned, pidx,
                    handles, frame, image_left, image_right, timestamp0,
                    running_event, error_logged, unlinks, rvars >>

\* self.timestamp_shm_array[0] = time.time()
PubWriteTimestamp ==
    /\ ppc = "write_ts"
    /\ mem' = [mem EXCEPT !.timestamp = now]
    /\ written' = Append(written, now)
    /\ ppc' = After("write_ts")
    /\ UNCHANGED << now, exists, shutdown_event, start_returned, pidx,
                    handles, frame, image_left, image_right, timestamp0,
                    running_event, error_logged, unlinks, rvars >>

\* The iteration goes on without clearing the flag.
PubClearWriteSkip ==
    /\ ppc = "clear_write"
    /\ ppc' = After("clear_write")
    /\ UNCHANGED << now, exists, mem, shutdown_event, start_returned, pidx,
                    handles, frame, image_left, image_right, timestamp0,
                    running_event, error_logged, unlinks, written, rvars >>

\* self.write_lock_shm_array[0] = False
PubClearWrite ==
    /\ ppc = "clear_write"
    /\ mem' = [mem EXCEPT !.write_lock = FALSE]
    /\ ppc' = After("clear_write")
    /\ UNCHANGED << now, exists, shutdown_event, start_returned, pidx,
                    handles, frame, image_left, image_right, timestamp0,
                    running_event, error_logged, unlinks, written, rvars >>

\* self.running_event.set()
PubSetRunning ==
    /\ ppc = "set_running"
    /\ running_event' = TRUE
    /\ ppc' = After("set_running")
    /\ UNCHANGED << now, exists, mem, shutdown_event, start_returned, pidx,
                    handles, frame, image_left, image_right, timestamp0,
                    error_logged, unlinks, written, rvars >>

\* The blocks are unlinked only when the loop ends without an exception.
PubExceptNoCleanup ==
    /\ ppc = "except"
    /\ error_logged' = TRUE
    /\ ppc' = "done"
    /\ pidx' = 0
    /\ UNCHANGED << now, exists, mem, shutdown_event, start_returned, handles,
                    frame, image_left, image_right, timestamp0, running_event,
                    unlinks, written, rvars >>

\* except Exception as e: logger.error(...)
PubExcept ==
    /\ ppc = "except"
    /\ error_logged' = TRUE
    /\ ppc' = "finally"
    /\ pidx' = 1
    /\ UNCHANGED << now, exists, mem, shutdown_event, start_returned, handles,
                    frame, image_left, image_right, timestamp0, running_event,
                    unlinks, written, rvars >>

\* The block is closed and its handle set to None, but it is not unlinked.
UnlinkCloseOnly(here, next) ==
    /\ ppc = here
    /\ handles' = handles \ {SegOrder[pidx]}
    /\ IF pidx < NSeg
         THEN ppc' = ppc /\ pidx' = pidx + 1
         ELSE ppc' = next /\ pidx' = IF next = "done" THEN 0 ELSE 1
    /\ UNCHANGED << now, exists, mem, shutdown_event, start_returned, frame,
                    image_left, image_right, timestamp0, running_event,
                    error_logged, unlinks, written, rvars >>

\* The block is closed and unlinked, but its handle is not set to None.
UnlinkKeepHandle(here, next) ==
    /\ ppc = here
    /\ LET s == SegOrder[pidx] IN
         IF s \in handles
           THEN /\ exists' = exists \ {s}
                /\ handles' = handles
                /\ unlinks' = [unlinks EXCEPT ![s] = @ + 1]
           ELSE UNCHANGED << exists, handles, unlinks >>
    /\ IF pidx < NSeg
         THEN ppc' = ppc /\ pidx' = pidx + 1
         ELSE ppc' = next /\ pidx' = IF next = "done" THEN 0 ELSE 1
    /\ UNCHANGED << now, mem, shutdown_event, start_returned, frame,
                    image_left, image_right, timestamp0, running_event,
                    error_logged, written, rvars >>

\* One if-statement of unlink_shared_memory: the block SegOrder[pidx] is
\* closed, unlinked and its handle set to None, when the handle is not None.
UnlinkSharedMemory(here, next) ==
    /\ ppc = here
    /\ LET s == SegOrder[pidx] IN
         IF s \in handles
           THEN /\ exists' = exists \ {s}
                /\ handles' = handles \ {s}
                /\ unlinks' = [unlinks EXCEPT ![s] = @ + 1]
           ELSE UNCHANGED << exists, handles, unlinks >>
    /\ IF pidx < NSeg
         THEN ppc' = ppc /\ pidx' = pidx + 1
         ELSE ppc' = next /\ pidx' = IF next = "done" THEN 0 ELSE 1
    /\ UNCHANGED << now, mem, shutdown_event, start_returned, frame,
                    image_left, image_right, timestamp0, running_event,
                    error_logged, written, rvars >>

\* finally: self.unlink_shared_memory()
PubFinally == UnlinkSharedMemory("finally", "after")

\* self.unlink_shared_memory() after the try statement; run() returns.
PubAfter == UnlinkSharedMemory("after", "done")

Publisher ==
    \/ PubSetupCamera \/ PubSetupFail \/ PubCreate \/ PubFill
    \/ PubLoopEnter \/ PubLoopExit \/ PubGrab \/ PubRetrieveLeft
    \/ PubRetrieveRight \/ PubCaptureFail \/ PubAdmit \/ PubSetWrite
    \/ PubCopyLeft \/ PubCopyRight \/ PubCopyFail \/ PubWriteTimestamp
    \/ PubClearWrite \/ PubSetRunning \/ PubExcept \/ PubFinally \/ PubAfter

\* ----------------------------------------------------------------- receiver
\* ZedReceiver(namespace) is called: the block names are computed.
RAttachBegin(r) ==
    /\ rpc[r] = "none"
    /\ rpc' = [rpc EXCEPT ![r] = "open"]
    /\ ropen' = [ropen EXCEPT ![r] = 0]
    /\ attach_result' = [attach_result EXCEPT ![r] = "none"]
    /\ UNCHANGED << now, exists, mem, shutdown_event, start_returned, pvars,
                    rgb_shape, fps, previous_timestamp, buffer_left,
                    buffer_right, rtmp, held, calls, read_start >>

\* The next block is opened whether it exists or not.
ROpenAnyway(r) ==
    /\ rpc[r] = "open"
    /\ ropen' = [ropen EXCEPT ![r] = @ + 1]
    /\ rpc' = [rpc EXCEPT ![r] = IF ropen[r] + 1 = NSeg THEN "views" ELSE "open"]
    /\ UNCHANGED << now, exists, mem, shutdown_event, start_returned, pvars,
                    attach_result, rgb_shape, fps, previous_timestamp,
                    buffer_left, buffer_right, rtmp, held, calls, read_start
                    >>

\* shared_memory.SharedMemory(name=...) of the next block: it exists.
ROpen(r) ==
    /\ rpc[r] = "open"
    /\ SegOrder[ropen[r] + 1] \in exists
    /\ ropen' = [ropen EXCEPT ![r] = @ + 1]
    /\ rpc' = [rpc EXCEPT ![r] = IF ropen[r] + 1 = NSeg THEN "views" ELSE "open"]
    /\ UNCHANGED << now, exists, mem, shutdown_event, start_returned, pvars,
                    attach_result, rgb_shape, fps, previous_timestamp,
                    buffer_left, buffer_right, rtmp, held, calls, read_start
                    >>

\* shared_memory.SharedMemory(name=...) of the next block raises
\* FileNotFoundError: the constructor fails, the blocks opened so far are
\* closed with the discarded object.
ROpenFail(r) ==
    /\ rpc[r] = "open"
    /\ SegOrder[ropen[r] + 1] \notin exists
    /\ rpc' = [rpc EXCEPT ![r] = "none"]
    /\ ropen' = [ropen EXCEPT ![r] = 0]
    /\ attach_result' = [attach_result EXCEPT ![r] = "ChannelNotFound"]
    /\ UNCHANGED << now, exists, mem, shutdown_event, start_returned, pvars,
                    rgb_shape, fps, previous_timestamp, buffer_left,
                    buffer_right, rtmp, held, calls, read_start >>

\* The constructor leaves previous_timestamp at 0.
RViewsZero(r) ==
    /\ rpc[r] = "views"
    /\ fps' = [fps EXCEPT ![r] = mem.fps]
    /\ rgb_shape' = [rgb_shape EXCEPT ![r] = mem.rgb_shape]
    /\ buffer_left' = [buffer_left EXCEPT ![r] = GarbageImage]
    /\ buffer_right' = [buffer_right EXCEPT ![r] = GarbageImage]
    /\ previous_timestamp' = [previous_timestamp EXCEPT ![r] = 0]
    /\ attach_result' = [attach_result EXCEPT ![r] = "ok"]
    /\ rpc' = [rpc EXCEPT ![r] = "ready"]
    /\ UNCHANGED << now, exists, mem, shutdown_event, start_returned, pvars,
                    ropen, rtmp, held, calls, read_start >>

\* The rest of __init__: the arrays on the blocks are made, fps and the
\* shape are read, the private buffers are allocated and the time is taken.
RViews(r) ==
    /\ rpc[r] = "views"
    /\ fps' = [fps EXCEPT ![r] = mem.fps]
    /\ rgb_shape' = [rgb_shape EXCEPT ![r] = mem.rgb_shape]
    /\ buffer_left' = [buffer_left EXCEPT ![r] = GarbageImage]
    /\ buffer_right' = [buffer_right EXCEPT ![r] = GarbageImage]
    /\ previous_timestamp' = [previous_timestamp EXCEPT ![r] = now]
    /\ attach_result' = [attach_result EXCEPT ![r] = "ok"]
    /\ rpc' = [rpc EXCEPT ![r] = "ready"]
    /\ UNCHANGED << now, exists, mem, shutdown_event, start_returned, pvars,
                    ropen, rtmp, held, calls, read_start >>

\* get_current_timestamp()
GetCurrentTimestamp == mem.timestamp

\* _grab_images() is called.
RGrabCall(r) ==
    /\ rpc[r] = "ready"
    /\ calls < MaxCalls
    /\ calls' = calls + 1
    /\ rpc' = [rpc EXCEPT ![r] = "grab_wait"]
    /\ UNCHANGED << now, exists, mem, shutdown_event, start_returned, pvars,
                    ropen, attach_result, rgb_shape, fps, previous_timestamp,
                    buffer_left, buffer_right, rtmp, held, read_start >>

\* The loop is left after a while, whatever the timestamp.
RGrabWaitTimeout(r) ==
    /\ rpc[r] = "grab_wait"
    /\ rpc' = [rpc EXCEPT ![r] = "grab_record"]
    /\ UNCHANGED << now, exists, mem, shutdown_event, start_returned, pvars,
                    ropen, attach_result, rgb_shape, fps, previous_timestamp,
                    buffer_left, buffer_right, rtmp, held, calls, read_start
                    >>

\* while not self.get_current_timestamp() > self.previous_timestamp: the
\* loop is left.
RGrabWait(r) ==
    /\ rpc[r] = "grab_wait"
    /\ GetCurrentTimestamp > previous_timestamp[r]
    /\ rpc' = [rpc EXCEPT ![r] = "grab_record"]
    /\ UNCHANGED << now, exists, mem, shutdown_event, start_returned, pvars,
                    ropen, attach_result, rgb_shape, fps, previous_timestamp,
                    buffer_left, buffer_right, rtmp, held, calls, read_start
                    >>

\* The time of the call is recorded instead of the channel's timestamp.
RGrabRecordClock(r) ==
    /\ rpc[r] = "grab_record"
    /\ previous_timestamp' = [previous_timestamp EXCEPT ![r] = now]
    /\ rpc' = [rpc EXCEPT ![r] = "ready"]
    /\ UNCHANGED << now, exists, mem, shutdown_event, start_returned, pvars,
                    ropen, attach_result, rgb_shape, fps, buffer_left,
                    buffer_right, rtmp, held, calls, read_start >>

\* self.previous_timestamp = self.get_current_timestamp()
RGrabRecord(r) ==
    /\ rpc[r] = "grab_record"
    /\ previous_timestamp' = [previous_timestamp EXCEPT ![r] = GetCurrentTimestamp]
    /\ rpc' = [rpc EXCEPT ![r] = "ready"]
    /\ UNCHANGED << now, exists, mem, shutdown_event, start_returned, pvars,
                    ropen, attach_result, rgb_shape, fps, buffer_left,
                    buffer_right, rtmp, held, calls, read_start >>

\* _retrieve_rgb_image_as_int() is called.
RRetrieveCall(r) ==
    /\ rpc[r] = "ready"
    /\ calls < MaxCalls
    /\ calls' = calls + 1
    /\ rpc' = [rpc EXCEPT ![r] = "read_wait"]
    /\ UNCHANGED << now, exists, mem, shutdown_event, start_returned, pvars,
                    ropen, attach_result, rgb_shape, fps, previous_timestamp,
                    buffer_left, buffer_right, rtmp, held, read_start >>

\* while self.write_lock_shm_array[0]: the loop is left.
RReadWait(r) ==
    /\ rpc[r] = "read_wait"
    /\ ~mem.write_lock
    /\ rpc' = [rpc EXCEPT ![r] = "inc_load"]
    /\ UNCHANGED << now, exists, mem, shutdown_event, start_returned, pvars,
                    ropen, attach_result, rgb_shape, fps, previous_timestamp,
                    buffer_left, buffer_right, rtmp, held, calls, read_start
                    >>

\* self.read_lock_shm_array[0] += 1, the load.
RIncLoad(r) ==
    /\ rpc[r] = "inc_load"
    /\ rtmp' = [rtmp EXCEPT ![r] = mem.read_lock]
    /\ rpc' = [rpc EXCEPT ![r] = "inc_store"]
    /\ UNCHANGED << now, exists, mem, shutdown_event, start_returned, pvars,
                    ropen, attach_result, rgb_shape, fps, previous_timestamp,
                    buffer_left, buffer_right, held, calls, read_start >>

\* self.read_lock_shm_array[0] += 1, the store.  The copy begins.
RIncStore(r) ==
    /\ rpc[r] = "inc_store"
    /\ mem' = [mem EXCEPT !.read_lock = rtmp[r] + 1]
    /\ rtmp' = [rtmp EXCEPT ![r] = 0]
    /\ read_start' = [read_start EXCEPT ![r] = Len(written)]
    /\ rpc' = [rpc EXCEPT ![r] = "copy_left"]
    /\ UNCHANGED << now, exists, shutdown_event, start_returned, pvars, ropen,
                    attach_result, rgb_shape, fps, previous_timestamp,
                    buffer_left, buffer_right, held, calls >>

\* self.rgb_left_buffer_array[:] = self.rgb_left_shm_array[:]
RCopyLeft(r) ==
    /\ rpc[r] = "copy_left"
    /\ buffer_left' = [buffer_left EXCEPT ![r] = mem.rgb_left]
    /\ rpc' = [rpc EXCEPT ![r] = "copy_right"]
    /\ UNCHANGED << now, exists, mem, shutdown_event, start_returned, pvars,
                    ropen, attach_result, rgb_shape, fps, previous_timestamp,
                    buffer_right, rtmp, held, calls, read_start >>

\* The right buffer is filled from the left block.
RCopyRightFromLeft(r) ==
    /\ rpc[r] = "copy_right"
    /\ buffer_right' = [buffer_right EXCEPT ![r] = mem.rgb_left]
    /\ rpc' = [rpc EXCEPT ![r] = "dec_load"]
    /\ UNCHANGED << now, exists, mem, shutdown_event, start_returned, pvars,
                    ropen, attach_result, rgb_shape, fps, previous_timestamp,
                    buffer_left, rtmp, held, calls, read_start >>

\* self.rgb_right_buffer_array[:] = self.rgb_right_shm_array[:]
RCopyRight(r) ==
    /\ rpc[r] = "copy_right"
    /\ buffer_right' = [buffer_right EXCEPT ![r] = mem.rgb_right]
    /\ rpc' = [rpc EXCEPT ![r] = "dec_load"]
    /\ UNCHANGED << now, exists, mem, shutdown_event, start_returned, pvars,
                    ropen, attach_result, rgb_shape, fps, previous_timestamp,
                    buffer_left, rtmp, held, calls, read_start >>

\* self.read_lock_shm_array[0] -= 1, the load.
RDecLoad(r) ==
    /\ rpc[r] = "dec_load"
    /\ rtmp' = [rtmp EXCEPT ![r] = mem.read_lock]
    /\ rpc' = [rpc EXCEPT ![r] = "dec_store"]
    /\ UNCHANGED << now, exists, mem, shutdown_event, start_returned, pvars,
                    ropen, attach_result, rgb_shape, fps, previous_timestamp,
                    buffer_left, buffer_right, held, calls, read_start >>

\* What _retrieve_rgb_image_as_int returns: its preallocated buffer arrays
\* themselves ("buffer"), not the arrays on the shared blocks ("shm").
ReturnsShm == "shm"

Returns == "buffer"

\* self.read_lock_shm_array[0] -= 1, the store; then the return statement.
RDecStore(r) ==
    /\ rpc[r] = "dec_store"
    /\ mem' = [mem EXCEPT !.read_lock = rtmp[r] - 1]
    /\ rtmp' = [rtmp EXCEPT ![r] = 0]
    /\ held' = [held EXCEPT ![r] = Returns]
    /\ rpc' = [rpc EXCEPT ![r] = "ready"]
    /\ UNCHANGED << now, exists, shutdown_event, start_returned, pvars, ropen,
                    attach_result, rgb_shape, fps, previous_timestamp,
                    buffer_left, buffer_right, calls, read_start >>

\* The images the caller sees through what the last return handed out.
HeldLeft(r) ==
    CASE held[r] = "buffer" -> buffer_left[r]
      [] held[r] = "shm" -> mem.rgb_left
      [] OTHER -> GarbageImage

HeldRight(r) ==
    CASE held[r] = "buffer" -> buffer_right[r]
      [] held[r] = "shm" -> mem.rgb_right
      [] OTHER -> GarbageImage

\* intrinsics_matrix(): the array on the intrinsics block itself.
IntrinsicsMatrix(r) == mem.intrinsics

\* The resolution property: (width, height) from the first two entries of
\* the array on the shape block, which holds (height, width, channels).
Resolution(r) == << mem.rgb_shape[2], mem.rgb_shape[1] >>

\* The receiver unlinks the blocks as the publisher does.
RCloseUnlink(r) ==
    /\ rpc[r] = "ready"
    /\ exists' = {}
    /\ ropen' = [ropen EXCEPT ![r] = 0]
    /\ rpc' = [rpc EXCEPT ![r] = "closed"]
    /\ UNCHANGED << now, mem, shutdown_event, start_returned, pvars,
                    attach_result, rgb_shape, fps, previous_timestamp,
                    buffer_left, buffer_right, rtmp, held, calls, read_start
                    >>

\* _close_shared_memory(): the eight handles of this receiver are closed.
RClose(r) ==
    /\ rpc[r] = "ready"
    /\ ropen' = [ropen EXCEPT ![r] = 0]
    /\ rpc' = [rpc EXCEPT ![r] = "closed"]
    /\ UNCHANGED << now, exists, mem, shutdown_event, start_returned, pvars,
                    attach_result, rgb_shape, fps, previous_timestamp,
                    buffer_left, buffer_right, rtmp, held, calls, read_start
                    >>

Receiver(r) ==
    \/ RAttachBegin(r) \/ ROpen(r) \/ ROpenFail(r) \/ RViews(r)
    \/ RGrabCall(r) \/ RGrabWait(r) \/ RGrabRecord(r)
    \/ RRetrieveCall(r) \/ RReadWait(r) \/ RIncLoad(r) \/ RIncStore(r)
    \/ RCopyLeft(r) \/ RCopyRight(r) \/ RDecLoad(r) \/ RDecStore(r)
    \/ RClose(r)

\* ------------------------------------------------------------ specification
Next ==
    \/ Start
    \/ Stop
    \/ Publisher
    \/ \E r \in Solo : Receiver(r)

Spec == Init /\ [][Next]_vars

\* The operating system keeps scheduling the publisher process.
FairSpec == Spec /\ WF_vars(Publisher)

\* The same processes, with the caller of start() followed until start()
\* returns.
StartNext ==
    \/ Next
    \/ StartReturn

StartSpec == Init /\ [][StartNext]_vars

\* ------------------------------------------- specification, two receivers
\* run() from its loop on, while stop() is not called and the camera keeps
\* delivering: the loop, and the except and finally clauses and the call of
\* unlink_shared_memory that follow a failed slice assignment.
PubRun ==
    \/ PubLoopEnter \/ PubGrab \/ PubRetrieveLeft
    \/ PubRetrieveRight \/ PubAdmit \/ PubSetWrite
    \/ PubCopyLeft \/ PubCopyRight \/ PubCopyFail \/ PubWriteTimestamp
    \/ PubClearWrite \/ PubSetRunning \/ PubExcept \/ PubFinally \/ PubAfter

\* The publisher has returned from _setup and is at the head of its loop;
\* receiver r1 was constructed after that, receiver r2 not yet.
DuoInit ==
    /\ now = 1
    /\ exists = Segs
    /\ mem = [s \in Segs |-> IF s = "timestamp" THEN 1 ELSE InitValue(s)]
    /\ ppc = "loop"
    /\ pidx = 0
    /\ handles = Segs
    /\ frame = 0
    /\ image_left = NoImage
    /\ image_right = NoImage
    /\ timestamp0 = 1
    /\ shutdown_event = FALSE
    /\ start_returned = FALSE
    /\ running_event = FALSE
    /\ error_logged = FALSE
    /\ unlinks = [s \in Segs |-> 0]
    /\ written = << 1 >>
    /\ rpc = [r \in Receivers |-> IF r \in Solo THEN "ready" ELSE "none"]
    /\ ropen = [r \in Receivers |-> IF r \in Solo THEN NSeg ELSE 0]
    /\ attach_result = [r \in Receivers |-> IF r \in Solo THEN "ok" ELSE "none"]
    /\ rgb_shape = [r \in Receivers |-> IF r \in Solo THEN SampleShape ELSE ZeroShape]
    /\ fps = [r \in Receivers |-> IF r \in Solo THEN CameraFps ELSE 0]
    /\ previous_timestamp = [r \in Receivers |-> IF r \in Solo THEN 1 ELSE 0]
    /\ buffer_left = [r \in Receivers |-> GarbageImage]
    /\ buffer_right = [r \in Receivers |-> GarbageImage]
    /\ rtmp = [r \in Receivers |-> 0]
    /\ held = [r \in Receivers |-> "none"]
    /\ calls = 0
    /\ read_start = [r \in Receivers |-> 0]

\* A receiver that is constructed, calls _retrieve_rgb_image_as_int and is
\* closed.
DuoReceiver(r) ==
    \/ RAttachBegin(r) \/ ROpen(r) \/ ROpenFail(r) \/ RViews(r)
    \/ RRetrieveCall(r) \/ RReadWait(r) \/ RIncLoad(r) \/ RIncStore(r)
    \/ RCopyLeft(r) \/ RCopyRight(r) \/ RDecLoad(r) \/ RDecStore(r)
    \/ RClose(r)

DuoNext ==
    \/ PubRun
    \/ \E r \in Receivers : DuoReceiver(r)

DuoSpec == DuoInit /\ [][DuoNext]_vars

\* ------------------------------- specification, two receivers reading
\* The publisher has returned from _setup and is at the head of its loop;
\* both receivers were constructed after that.
PairInit ==
    /\ now = 1
    /\ exists = Segs
    /\ mem = [s \in Segs |-> IF s = "timestamp" THEN 1 ELSE InitValue(s)]
    /\ ppc = "loop"
    /\ pidx = 0
    /\ handles = Segs
    /\ frame = 0
    /\ image_left = NoImage
    /\ image_right = NoImage
    /\ timestamp0 = 1
    /\ shutdown_event = FALSE
    /\ start_returned = FALSE
    /\ running_event = FALSE
    /\ error_logged = FALSE
    /\ unlinks = [s \in Segs |-> 0]
    /\ written = << 1 >>
    /\ rpc = [r \in Receivers |-> "ready"]
    /\ ropen = [r \in Receivers |-> NSeg]
    /\ attach_result = [r \in Receivers |-> "ok"]
    /\ rgb_shape = [r \in Receivers |-> SampleShape]
    /\ fps = [r \in Receivers |-> CameraFps]
    /\ previous_timestamp = [r \in Receivers |-> 1]
    /\ buffer_left = [r \in Receivers |-> GarbageImage]
    /\ buffer_right = [r \in Receivers |-> GarbageImage]
    /\ rtmp = [r \in Receivers |-> 0]
    /\ held = [r \in Receivers |-> "none"]
    /\ calls = 0
    /\ read_start = [r \in Receivers |-> 0]

\* The calls of _retrieve_rgb_image_as_int of receiver r.
ReadCall(r) ==
    \/ RRetrieveCall(r) \/ RReadWait(r) \/ RIncLoad(r) \/ RIncStore(r)
    \/ RCopyLeft(r) \/ RCopyRight(r) \/ RDecLoad(r) \/ RDecStore(r)

PairNext ==
    \/ PubRun
    \/ \E r \in Receivers : ReadCall(r)

\* The operating system keeps scheduling the publisher process and both
\* receiver processes.
PairFairSpec ==
    /\ PairInit /\ [][PairNext]_vars
    /\ WF_vars(PubRun)
    /\ \A r \in Receivers : WF_vars(ReadCall(r))

\* ------------------------------------------------------------------ claims
\* Receiver r is at one of the two slice assignments of
\* _retrieve_rgb_image_as_int: it has incremented read_lock and a copy out
\* of the shared buffers is still to be made.
InCopy(r) == rpc[r] \in {"copy_left", "copy_right"}

\* A call of _retrieve_rgb_image_as_int of r has returned and no other is
\* under way.
Returned(r) == rpc[r] = "ready" /\ held[r] # "none"

\* C1: no receiver is inside its pixel-buffer copy while write_lock is true,
\* and the left and right image a call returns come from one and the same
\* frame.
C1_NoCopyWhileWriting ==
    \A r \in Receivers :
        /\ InCopy(r) => ~mem.write_lock
        /\ Returned(r) => HeldLeft(r)[1] = HeldRight(r)[1]

\* C2: the values stored in the timestamp block, the one of _setup first,
\* are strictly increasing.
C2_TimestampsIncrease ==
    \A i, j \in 1..Len(written) : i < j => written[i] < written[j]

\* Two loop iterations have stored their timestamps.
C2_Witness == Len(written) = 3

\* C3: whenever the timestamp block holds the value stored by iteration k,
\* both pixel blocks hold frame k or a later frame; and the images of a copy
\* that began when the timestamp of iteration k had been stored, as it had
\* been for a receiver that recorded that timestamp before, are never from a
\* frame older than k.
C3_TimestampAfterBuffers ==
    /\ \A k \in 1..MaxFrames :
          (Len(written) = k + 1 /\ mem.timestamp = written[k + 1])
              => (mem.rgb_left[1] >= k /\ mem.rgb_right[1] >= k)
    /\ \A r \in Receivers : \A k \in 1..MaxFrames :
          ( /\ read_start[r] >= k + 1
            /\ ~InCopy(r)
            /\ previous_timestamp[r] = written[k + 1] )
              => (buffer_left[r][1] >= k /\ buffer_right[r][1] >= k)

\* A receiver recorded the timestamp of iteration 1 in _grab_images and
\* then made a copy, which has returned.
C3_Witness ==
    \E r \in Receivers :
        /\ Returned(r)
        /\ Len(written) >= 2
        /\ previous_timestamp[r] = written[2]
        /\ read_start[r] >= 2
        /\ calls = 2

\* C4 as stated: once a call has returned, the images the caller holds never
\* change again.
C4_SnapshotNeverChanges ==
    [][ \A r \in Receivers :
          held[r] # "none"
              => (HeldLeft(r)' = HeldLeft(r) /\ HeldRight(r)' = HeldRight(r)) ]_vars

\* C4 amended: the images the caller holds change only in the slice
\* assignments of a later call of the same receiver; no step of the
\* publisher changes them.
C4_SnapshotChangesOnlyByOwnCall ==
    [][ \A r \in Receivers :
          (held[r] # "none" /\ ~InCopy(r))
              => (HeldLeft(r)' = HeldLeft(r) /\ HeldRight(r)' = HeldRight(r)) ]_vars

\* The caller holds the images of frame 1 while the left block already
\* holds frame 2.
C4_Witness ==
    \E r \in Receivers :
        /\ Returned(r)
        /\ HeldLeft(r) = Image(1, "L")
        /\ mem.rgb_left = Image(2, "L")

\* C5: when run() is past its finally clause, whether the loop ended by the
\* shutdown event or by an exception, none of the eight blocks is linked and
\* the publisher holds no handle.
C5_ExitUnlinksAll ==
    ppc \in {"after", "done"} => (exists = {} /\ handles = {})

\* run() has returned after an exception in the loop, the blocks having been
\* created and unlinked.
C5_Witness ==
    /\ ppc = "done"
    /\ error_logged
    /\ \A s \in Segs : unlinks[s] = 1

\* run() is past its finally clause: the publisher has destroyed the channel.
Destroyed == ppc \in {"after", "done"}

\* C6: once the publisher has destroyed the channel, the next open of every
\* constructor call that is under way or begins fails with ChannelNotFound,
\* and no receiver gets past its opens.
C6_AttachAfterDestroyFails ==
    [][ \A r \in Receivers :
          (Destroyed /\ rpc[r] \in {"none", "open"})
              => /\ rpc'[r] \in {"none", "open"}
                 /\ ropen'[r] = IF rpc'[r] = "open" THEN ropen[r] ELSE 0
                 /\ (rpc[r] = "open" /\ rpc'[r] = "none")
                        => attach_result'[r] = "ChannelNotFound" ]_vars

\* The channel was created and destroyed, and a constructor call has failed
\* with ChannelNotFound.
C6_Witness ==
    /\ Destroyed
    /\ \A s \in Segs : unlinks[s] = 1
    /\ \E r \in Receivers :
          rpc[r] = "none" /\ attach_result[r] = "ChannelNotFound"

CreatedAll ==
    /\ ppc \notin {"init", "setup", "crashed", "create"}
    /\ ppc = "fill" => pidx = NSeg

Running ==
    ppc \in {"loop", "grab", "retrieve_left", "retrieve_right", "admit",
             "set_write", "copy_left", "copy_right", "write_ts",
             "clear_write", "set_running"}

\* C8: with the shutdown event set, the loop condition only leads out of the
\* loop, no timestamp is stored after that check, and a publisher in its loop
\* eventually returns from run() with none of the eight blocks linked.
C8_StopEndsPublisher ==
    /\ [][ shutdown_event =>
             /\ (ppc = "loop" /\ ppc' # ppc) => ppc' = "finally"
             /\ ppc \in {"finally", "after", "done"} => written' = written ]_vars
    /\ (shutdown_event /\ Running) ~> (ppc = "done" /\ exists = {})

\* stop() was called, the publisher had published two frames, and run() has
\* returned without an exception.
C8_Witness ==
    /\ shutdown_event
    /\ ppc = "done"
    /\ ~error_logged
    /\ Len(written) = 3
    /\ exists = {}

\* C9: the shape block holds the shape of the sample image from its filling
\* on, and every receiver whose constructor succeeded has read that shape
\* and reports it as (width, height).
C9_ShapeFixed ==
    /\ (ppc \notin {"init", "setup", "crashed", "create", "fill"}
            => mem.rgb_shape = SampleShape)
    /\ \A r \in Receivers :
          attach_result[r] = "ok"
              => /\ rgb_shape[r] = SampleShape
                 /\ Resolution(r) = << SampleShape[2], SampleShape[1] >>

\* A receiver was constructed after the second frame had been grabbed.
C9_Witness ==
    \E r \in Receivers :
        /\ attach_result[r] = "ok"
        /\ calls = 0
        /\ previous_timestamp[r] = 3
        /\ Len(written) = 3

\* C10: when a copy began after frame k >= 1 was published and both blocks
\* still hold frame k when the call has returned, so that the publisher has
\* written nothing since, the call returned the left and the right image of
\* frame k, and intrinsics_matrix gives the camera's matrix.
C10_RoundTrip ==
    \A r \in Receivers : \A k \in 1..MaxFrames :
        ( /\ Returned(r)
          /\ read_start[r] = k + 1
          /\ mem.rgb_left = Image(k, "L")
          /\ mem.rgb_right = Image(k, "R") )
            => /\ HeldLeft(r) = Image(k, "L")
               /\ HeldRight(r) = Image(k, "R")
               /\ IntrinsicsMatrix(r) = "K"

\* One frame was published, the publisher has stopped, and a copy made
\* afterwards has returned.
C10_Witness ==
    \E r \in Receivers :
        /\ Returned(r)
        /\ read_start[r] = 2
        /\ Len(written) = 2
        /\ ppc = "done"
        /\ HeldRight(r) = Image(1, "R")

\* The publisher has left its loop, or never reached it: it stores no
\* further timestamp.
PublisherOver == ppc \in {"crashed", "except", "finally", "after", "done"}

\* C11: _grab_images leaves its loop only while the channel's timestamp is
\* greater than the value the receiver recorded last, the value it then
\* records is greater than that one and is a value the publisher stored, and
\* the recorded value changes in no other step after the constructor.
C11_GrabRecordsIncrease ==
    /\ [](\A r \in Receivers :
             rpc[r] = "grab_record" => GetCurrentTimestamp > previous_timestamp[r])
    /\ [][ \A r \in Receivers :
             /\ (rpc[r] = "grab_record" /\ rpc'[r] # rpc[r])
                    => /\ previous_timestamp'[r] > previous_timestamp[r]
                       /\ \E i \in 1..Len(written) :
                              written[i] = previous_timestamp'[r]
             /\ rpc[r] \notin {"grab_record", "views"}
                    => previous_timestamp'[r] = previous_timestamp[r] ]_vars

\* A receiver has returned from two calls of _grab_images, having recorded
\* the timestamp of the first and then of the second iteration.
C11_Witness ==
    \E r \in Receivers :
        /\ rpc[r] = "ready"
        /\ calls = 2
        /\ held[r] = "none"
        /\ Len(written) = 3
        /\ previous_timestamp[r] = written[3]

\* C12: a call of _grab_images stays in its loop in every step taken while
\* the channel's timestamp is not greater than the recorded value, and once
\* the publisher is over the timestamp never changes again, so that such a
\* call never returns.
C12_GrabNeverTimesOut ==
    [][ /\ \A r \in Receivers :
             (rpc[r] = "grab_wait" /\ ~(GetCurrentTimestamp > previous_timestamp[r]))
                 => (rpc'[r] = "grab_wait"
                     /\ previous_timestamp'[r] = previous_timestamp[r])
        /\ PublisherOver => (PublisherOver' /\ GetCurrentTimestamp' = GetCurrentTimestamp) ]_vars

\* run() has returned and a receiver is in the loop of _grab_images with
\* the last timestamp of the channel already recorded.
C12_Witness ==
    \E r \in Receivers :
        /\ rpc[r] = "grab_wait"
        /\ ppc = "done"
        /\ Len(written) = 3
        /\ previous_timestamp[r] = GetCurrentTimestamp

\* Receiver r is inside a call of _retrieve_rgb_image_as_int.
InRead(r) ==
    rpc[r] \in {"read_wait", "inc_load", "inc_store", "copy_left",
                "copy_right", "dec_load", "dec_store"}

ReceiverState(r) ==
    << rpc[r], ropen[r], attach_result[r], rgb_shape[r], fps[r],
       previous_timestamp[r], buffer_left[r], buffer_right[r], rtmp[r],
       held[r], read_start[r] >>

\* C14: the step in which a receiver closes its handles changes neither the
\* set of linked blocks, nor their contents, nor the publisher's handles, nor
\* anything of another receiver; and with a receiver closed and all eight
\* blocks linked, another receiver can begin a constructor call, get on with
\* its opens and its constructor, and begin and get on with a call of
\* _retrieve_rgb_image_as_int.
C14_DetachLeavesChannel ==
    /\ [][ \A r \in Receivers :
             (rpc[r] # "closed" /\ rpc'[r] = "closed")
                 => /\ exists' = exists
                    /\ mem' = mem
                    /\ handles' = handles
                    /\ unlinks' = unlinks
                    /\ \A q \in Receivers \ {r} :
                          ReceiverState(q)' = ReceiverState(q) ]_vars
    /\ [](\A r \in Receivers : \A q \in Receivers \ {r} :
             (rpc[r] = "closed" /\ exists = Segs)
                 => /\ rpc[q] = "none" => ENABLED RAttachBegin(q)
                    /\ rpc[q] = "open" => ENABLED ROpen(q)
                    /\ rpc[q] = "views" => ENABLED RViews(q)
                    /\ (rpc[q] = "ready" /\ calls < MaxCalls)
                           => ENABLED RRetrieveCall(q)
                    /\ (rpc[q] = "read_wait" /\ ~mem.write_lock)
                           => ENABLED RReadWait(q)
                    /\ InCopy(q) => ENABLED (RCopyLeft(q) \/ RCopyRight(q)))

\* One receiver has closed its handles after a call, and the other, whose
\* constructor was called beside it, is copying out of the blocks, all
\* eight of which are linked.
C14_Witness ==
    \E r, q \in Receivers :
        /\ rpc[r] = "closed"
        /\ held[r] # "none"
        /\ attach_result[q] = "ok"
        /\ previous_timestamp[q] > 1
        /\ InCopy(q)
        /\ exists = Segs
        /\ ~PublisherOver

\* C15: the step in which the publisher sets write_lock, after which it
\* copies into the pixel blocks, is taken only while read_lock is 0 and no
\* receiver is inside its copy.
C15_WriteBeginsWithoutReaders ==
    [][ (ppc = "set_write" /\ ppc' # ppc)
            => (mem.read_lock = 0 /\ \A r \in Receivers : ~InCopy(r)) ]_vars

\* Receiver r has stored its increment of read_lock and not yet its
\* decrement.
MidCopy(r) == rpc[r] \in {"copy_left", "copy_right", "dec_load", "dec_store"}

\* C16: read_lock is never negative and equals the number of receivers that
\* have stored their increment and not yet their decrement.
C16_ReaderCountIsReaders ==
    /\ mem.read_lock >= 0
    /\ mem.read_lock = Cardinality({r \in Receivers : MidCopy(r)})

\* C17: with one receiver, read_lock is 1 while the receiver is between its
\* increment and its decrement and 0 otherwise, whatever the publisher does.
C17_ReaderCountReturns ==
    mem.read_lock = IF \E r \in Solo : MidCopy(r) THEN 1 ELSE 0

\* The publisher is between setting and clearing write_lock: a write is in
\* progress.
Writing == ppc \in {"copy_left", "copy_right", "write_ts", "clear_write"}

\* C18: while the write_lock block is linked, write_lock is true exactly in
\* the states in which a write is in progress.
C18_WriteFlagIsWriting ==
    "write_lock" \in exists => (mem.write_lock <=> Writing)

\* The blocks into which _setup has copied the initial value.
Filled ==
    CASE ppc \in {"init", "setup", "crashed"} -> {}
      [] ppc \in {"create", "fill"} -> {SegOrder[i] : i \in 1..(pidx - 1)}
      [] OTHER -> Segs

\* C19: whenever a constructor call has got through its opens, the shape,
\* intrinsics and fps blocks hold the values of _setup, and _setup has
\* stored the initial values of write_lock and read_lock; none of these five
\* blocks is linked and not yet filled.
C19_InitializedBeforeAttach ==
    \A r \in Receivers :
        (rpc[r] = "views" \/ attach_result[r] = "ok")
            => /\ mem.rgb_shape = SampleShape
               /\ mem.intrinsics = "K"
               /\ mem.fps = CameraFps
               /\ {"rgb_shape", "intrinsics", "fps", "write_lock", "read_lock"}
                      \subseteq Filled

C21_StartReturnsAfterFirstFrame ==
    /\ [](start_returned => (running_event /\ CreatedAll /\ Len(written) >= 2))
    /\ [][ /\ (~running_event /\ running_event')
                => /\ CreatedAll
                   /\ Len(written) = 2
                   /\ mem.timestamp = written[2]
                   /\ mem.rgb_left = Image(1, "L")
                   /\ mem.rgb_right = Image(1, "R")
                   /\ ~mem.write_lock
           /\ (~start_returned /\ start_returned') => running_event
           /\ (PublisherOver /\ ~running_event)
                => (PublisherOver' /\ ~running_event' /\ ~start_returned') ]_vars

\* start() has returned while the publisher is in its second iteration.
C21_Witness ==
    /\ start_returned
    /\ Len(written) = 2
    /\ frame = 2
    /\ ppc = "copy_left"

\* C22: the constructor sets previous_timestamp to the time at which it
\* ends, and no timestamp stored before is greater than that time; a call of
\* _grab_images leaves its loop only on a timestamp of the channel that is
\* greater than previous_timestamp, so that the first call does not return
\* on a frame published before the receiver was constructed.
C22_FirstGrabAfterAttach ==
    [][ \A r \in Receivers :
          /\ (rpc[r] = "views" /\ rpc'[r] # rpc[r])
                => /\ previous_timestamp'[r] = now
                   /\ \A i \in 1..Len(written) :
                          ~(written[i] > previous_timestamp'[r])
          /\ (rpc[r] = "grab_wait" /\ rpc'[r] # rpc[r])
                => /\ GetCurrentTimestamp > previous_timestamp[r]
                   /\ GetCurrentTimestamp = written[Len(written)] ]_vars

\* A receiver whose constructor ended in the camera period in which frame 1
\* was published has got frame 1 from _retrieve_rgb_image_as_int and is now
\* held in the loop of its first _grab_images by the timestamp of that frame.
C22_Witness ==
    \E r \in Receivers :
        /\ rpc[r] = "grab_wait"
        /\ calls = 2
        /\ held[r] # "none"
        /\ HeldLeft(r) = Image(1, "L")
        /\ HeldRight(r) = Image(1, "R")
        /\ Len(written) = 2
        /\ GetCurrentTimestamp = written[2]
        /\ previous_timestamp[r] = written[2]

\* run() has ended: it has returned, or _setup has raised.
RunEnded == ppc \in {"done", "crashed"}

\* The number of calls of unlink_shared_memory that run() has begun.
Invocations ==
    CASE ppc = "finally" -> 1
      [] ppc \in {"after", "done"} -> 2
      [] OTHER -> 0

\* C23 as stated: whenever run() has ended, unlink_shared_memory was called
\* twice and each of the eight blocks was unlinked exactly once.
C23_EveryExitUnlinksTwice ==
    RunEnded => (Invocations = 2 /\ \A s \in Segs : unlinks[s] = 1)

\* C23 amended: when run() has returned, after the loop was left by the
\* shutdown event or by a caught exception, unlink_shared_memory was called
\* twice and each of the eight blocks was unlinked exactly once; each step
\* of the first call unlinks the one block it is at, whose handle it clears,
\* and the second call finds no handle, changes nothing and ends.
C23_SecondUnlinkDoesNothing ==
    /\ [](ppc = "done"
             => (Invocations = 2 /\ handles = {} /\ \A s \in Segs : unlinks[s] = 1))
    /\ [](ppc = "after" => (handles = {} /\ exists = {}))
    /\ [][ /\ (ppc = "finally" /\ pidx' # pidx)
                => /\ unlinks = [s \in Segs |-> IF \E i \in 1..(pidx - 1) :
                                                     SegOrder[i] = s
                                                  THEN 1 ELSE 0]
                   /\ unlinks' = [unlinks EXCEPT ![SegOrder[pidx]] = 1]
                   /\ handles' = handles \ {SegOrder[pidx]}
                   /\ exists' = exists \ {SegOrder[pidx]}
           /\ (ppc = "after" /\ pidx' # pidx)
                => /\ unlinks' = unlinks
                   /\ handles' = handles
                   /\ exists' = exists
                   /\ mem' = mem
                   /\ ppc' \in {"after", "done"} ]_vars

\* The second call of unlink_shared_memory is at its last if-statement,
\* after an exception in the loop: no handle is left and every block was
\* unlinked once.
C23_Witness ==
    /\ ppc = "after"
    /\ pidx = NSeg
    /\ error_logged
    /\ handles = {}
    /\ \A s \in Segs : unlinks[s] = 1

====
